---- MODULE Spec2Model ----
(***************************************************************************)
(* A model of src/app.py, the Streamlit front end of the Generative AI     *)
(* prototypes: the password gate, the page dispatch in main(), the ELI3    *)
(* page and the EYFS activity-plan page with its prompt assembly and its   *)
(* chat-completion call.                                                   *)
(*                                                                         *)
(* Streamlit runs the script top to bottom once per user interaction.  A   *)
(* session is modelled as the persistent session state and widget values   *)
(* plus the position (pc) of the current script run.  Text is a sequence   *)
(* of tokens; concatenation of text is \o.                                 *)
(***************************************************************************)
EXTENDS Naturals, Sequences, FiniteSets

VARIABLES
    session_state,      \* st.session_state: keys "password", "password_correct"
    last_submission,    \* history: the password most recently submitted
    gate,               \* what check_password() returned in the current run
    pc,                 \* position of the script run ("idle": run finished)
    selected,           \* option_menu page
    areas_of_learning,  \* st.multiselect, in selection order
    difficulty,         \* st.selectbox
    location,           \* st.selectbox
    n_results,          \* st.slider
    prompt_selector,    \* st.selectbox Default / Custom
    user_edit,          \* the Custom text area: NoEdit or Edited(text)
    description,        \* st.text_input "How can I help you?"
    generate_clicked,   \* st.button returned True in this run
    messages,           \* the list the name `messages` is bound to
    selected_system_messages,
    selected_user_messages,
    rendered,           \* what this run has written to the page, in order
    escaped,            \* the exception that ended this run, or NoError
    earlier,            \* history: how the latest finished Generate cycle ended
    arg_messages,       \* get_messages_by_role: the list passed in
    arg_role,           \* get_messages_by_role: the role passed in
    ret,                \* get_messages_by_role: what the helper section computed
    after_messages      \* get_messages_by_role: the list after the call

gateVars   == <<session_state, last_submission, gate>>
widgetVars == <<selected, areas_of_learning, difficulty, location, n_results,
                prompt_selector, user_edit, description>>
runVars    == <<pc, generate_clicked, messages, selected_system_messages,
                selected_user_messages, rendered, escaped, earlier>>
helperVars == <<arg_messages, arg_role, ret, after_messages>>
vars       == <<gateVars, widgetVars, runVars, helperVars>>

----------------------------------------------------------------------------
(* Bounds of the model. *)

\* how many of the seven areas of learning the multiselect offers in the model
MaxAreas == 2
\* longest message list handed to get_messages_by_role on its own
MaxMsgs == 3

(* Program constants. *)
SliderDefault == 5
SliderMax == 10

----------------------------------------------------------------------------
(* Text helpers. *)

Roles == {"system", "user", "assistant"}

Msg(role, content) == [role |-> role, content |-> content]

\* str.join: the texts of `parts` with `sep` between neighbours
RECURSIVE JoinStr(_, _)
JoinStr(sep, parts) ==
    IF parts = <<>> THEN <<>>
    ELSE IF Len(parts) = 1 THEN parts[1]
    ELSE parts[1] \o sep \o JoinStr(sep, Tail(parts))

Digit(d) ==
    CASE d = 0 -> "0" [] d = 1 -> "1" [] d = 2 -> "2" [] d = 3 -> "3"
      [] d = 4 -> "4" [] d = 5 -> "5" [] d = 6 -> "6" [] d = 7 -> "7"
      [] d = 8 -> "8" [] d = 9 -> "9"

\* format(int) inside an f-string: the decimal digits
RECURSIVE IntStr(_)
IntStr(n) == IF n < 10 THEN <<Digit(n)>> ELSE IntStr(n \div 10) \o <<Digit(n % 10)>>

\* repr(str) for a string holding no quote or backslash (all area names)
StrRepr(s) == <<"'", s, "'">>

\* format(list) inside an f-string: list.__repr__, "[" + ", ".join(repr(x)) + "]"
ListStr(xs) ==
    <<"[">> \o JoinStr(<<",", " ">>, [i \in 1..Len(xs) |-> StrRepr(xs[i])]) \o <<"]">>

----------------------------------------------------------------------------
(* The widgets' options. *)

aol == << "Communication and Language",
          "Personal, Social and Emotional Development",
          "Physical Development",
          "Literacy",
          "Mathematics",
          "Understanding the World",
          "Expressive Arts and Design" >>

\* the options the model's multiselect offers, and its default (all of them)
AolOffered == SubSeq(aol, 1, MaxAreas)

IsInjective(s) == \A i, j \in 1..Len(s) : s[i] = s[j] => i = j

\* every value a multiselect can return: distinct options in selection order
Selections ==
    UNION { { s \in [1..n -> {AolOffered[i] : i \in 1..Len(AolOffered)}] : IsInjective(s) }
            : n \in 0..Len(AolOffered) }

Difficulties == {"Easy", "Medium", "Hard"}
Locations == {"Indoor", "Outdoor", "Indoor or Outdoor"}
NResultsChoices == {SliderDefault, SliderMax}
PromptModes == {"Default", "Custom"}
Pages == {"Home page", "ELI3", "EYFS-based activity plan"}

DefaultDescription ==
    <<"A kid came into my lesson talking about having found a snail in their garden at the weekend.">>
Descriptions == {DefaultDescription, <<>>}

\* the Custom text area: untouched (it shows its default), or holding typed text
NoEdit == [edited |-> FALSE, text |-> <<>>]
Edited(t) == [edited |-> TRUE, text |-> t]
CustomTexts == {<<"Suggest one outdoor game.">>}

----------------------------------------------------------------------------
(* Prompt assembly in early_year_activity_plan. *)

SystemContent == <<"You are a passionate, energetic early year educator in the UK.">>

\* the long literal of the second template, abbreviated
ContextContent ==
    <<"###Context###The UK's Early Years Foundation Stage framework ... **Areas of learning**:<list_of_areas_of_learning>\n\n">>

\* the f-string of the third template, over the formatted placeholder values
RequirementsContent(areasText, nText, difficultyText, locationText) ==
    <<"###Requirements for the activities###\n1. Your suggestions must be fun and engaging for the children.\n2. Your suggestions must be novel, inspiring and memorable.\n3. Your proposed activities engage children in the following Areas of Learning: ">>
    \o areasText
    \o <<".\n4. You must generate ">> \o nText
    \o <<" activities.\n5. Your proposed activities must be ">> \o difficultyText
    \o <<".\n6. Your proposed activities must be played ">> \o locationText

\* a faulty variant of Templates: the system template is lost
Templates_NoSystem(areas, n, d, l) ==
    << Msg("user", ContextContent),
       Msg("user", RequirementsContent(ListStr(areas), IntStr(n), <<d>>, <<l>>)) >>

\* messages = [...]
Templates(areas, n, d, l) ==
    << Msg("system", SystemContent),
       Msg("user", ContextContent),
       Msg("user", RequirementsContent(ListStr(areas), IntStr(n), <<d>>, <<l>>)) >>

\* a faulty variant of get_messages_by_role: the filter keeps the first match only
RECURSIVE get_messages_by_role_First(_, _)
get_messages_by_role_First(ms, role) ==
    IF ms = <<>> THEN <<>>
    ELSE IF Head(ms).role = role THEN <<Head(ms).content>>
    ELSE get_messages_by_role_First(Tail(ms), role)

\* [message["content"] for message in messages if message["role"] == role]
RECURSIVE get_messages_by_role(_, _)
get_messages_by_role(ms, role) ==
    IF ms = <<>> THEN <<>>
    ELSE (IF Head(ms).role = role THEN <<Head(ms).content>> ELSE <<>>)
         \o get_messages_by_role(Tail(ms), role)

\* "".join(get_messages_by_role(messages, role="system"))
SelectedSystemMessages(ms) == JoinStr(<<>>, get_messages_by_role(ms, "system"))

\* "\n\n".join(get_messages_by_role(messages, role="user"))
SelectedUserDefault(ms) == JoinStr(<<"\n\n">>, get_messages_by_role(ms, "user"))

\* a faulty variant of CustomMessages: the user message is put first
CustomMessages_UserFirst(system, user_message) ==
    << Msg("user", user_message), Msg("system", system) >>

\* messages = [{"role": "system", ...}, {"role": "user", "content": user_message}]
CustomMessages(system, user_message) ==
    << Msg("system", system), Msg("user", user_message) >>

\* a faulty variant of RequestMessage: the description is left out
RequestMessage_NoDescription(d) ==
    Msg("user", <<"###Description###\n">> \o <<"\n\n###Activities###\n">>)

\* {"role": "user", "content": f"###Description###\n{description}\n\n###Activities###\n"}
RequestMessage(d) ==
    Msg("user", <<"###Description###\n">> \o d \o <<"\n\n###Activities###\n">>)

----------------------------------------------------------------------------
(* The password gate. *)

Secret == "s3cret"
Passwords == {"", Secret, "letmein", "guess"}
NoSubmission == "NoSubmission"

Has(ss, k) == k \in DOMAIN ss
Set(ss, k, v) == [x \in (DOMAIN ss) \cup {k} |-> IF x = k THEN v ELSE ss[x]]
Del(ss, k) == [x \in (DOMAIN ss) \ {k} |-> ss[x]]
EmptyState == [x \in {} |-> ""]

\* a faulty variant of password_entered: the entered password is kept
password_entered_Keep(ss) ==
    IF ss["password"] = Secret
    THEN Set(ss, "password_correct", TRUE)
    ELSE Set(ss, "password_correct", FALSE)

\* the on_change callback of the password input
password_entered(ss) ==
    IF ss["password"] = Secret
    THEN Del(Set(ss, "password_correct", TRUE), "password")
    ELSE Set(ss, "password_correct", FALSE)

\* a faulty variant of check_password: the first run is let through
check_password_FirstRun(ss) ==
    ~Has(ss, "password_correct") \/ ss["password_correct"]

\* the value check_password() returns
check_password(ss) ==
    IF ~Has(ss, "password_correct") THEN FALSE
    ELSE IF ~ss["password_correct"] THEN FALSE
    ELSE TRUE

\* st.text_input(..., key="password"): the widget's value lives under its key
PasswordInput(ss) == IF Has(ss, "password") THEN ss ELSE Set(ss, "password", "")

----------------------------------------------------------------------------
(* Script runs. *)

NoError == [type |-> "NoError"]
Raised(t) == [type |-> t]
OpenAIErrors == {"APIConnectionError", "RateLimitError"}
Answers == {<<"## Snail trail painting ...">>}

Item(kind, value) == [kind |-> kind, value |-> value]
Wrote(kind) == \E i \in 1..Len(rendered) : rendered[i].kind = kind

\* a user interaction ends with Streamlit running the script again
Rerun(clicked) ==
    /\ pc' = "start"
    /\ gate' = "pending"
    /\ generate_clicked' = clicked
    /\ rendered' = <<>>
    /\ escaped' = NoError
    /\ UNCHANGED <<messages, selected_system_messages, selected_user_messages>>

\* the user changes the password input: the callback, then a rerun
SubmitPassword(p) ==
    /\ pc = "idle"
    /\ Wrote("password_input")
    /\ p # session_state["password"]
    /\ session_state' = password_entered(Set(session_state, "password", p))
    /\ last_submission' = p
    /\ Rerun(FALSE)
    /\ UNCHANGED <<widgetVars, earlier, helperVars>>

\* main(): the option menu and the page dispatch
Main ==
    IF selected = "Home page"
    THEN /\ rendered' = rendered \o <<Item("title", <<>>), Item("welcome", <<>>)>>
         /\ pc' = "idle"
    ELSE /\ pc' = IF selected = "ELI3" THEN "eli3" ELSE "build"
         /\ UNCHANGED rendered

\* the script's last statement: if check_password(): main()
RunScript ==
    /\ pc = "start"
    /\ IF check_password(session_state)
       THEN /\ gate' = "granted"
            /\ Main
            /\ UNCHANGED session_state
       ELSE /\ gate' = "denied"
            /\ pc' = "idle"
            /\ session_state' = PasswordInput(session_state)
            /\ rendered' =
                 IF Has(session_state, "password_correct")
                 THEN <<Item("password_input", <<>>), Item("error", <<"Password incorrect">>)>>
                 ELSE <<Item("password_input", <<>>)>>
    /\ UNCHANGED <<last_submission, widgetVars, generate_clicked, messages,
                   selected_system_messages, selected_user_messages, escaped,
                   earlier, helperVars>>

----------------------------------------------------------------------------
(* early_year_activity_plan(), in the steps of one script run. *)

EYFS == "EYFS-based activity plan"

\* a faulty variant of BuildMessages: the templates extend the list of the run before
BuildMessages_Extend ==
    /\ pc = "build"
    /\ messages' = messages \o Templates(areas_of_learning, n_results, difficulty, location)
    /\ selected_system_messages' = SelectedSystemMessages(messages')
    /\ selected_user_messages' = SelectedUserDefault(messages')
    /\ rendered' = rendered \o <<Item("title", <<>>)>>
    /\ pc' = "prompt"
    /\ UNCHANGED <<gateVars, widgetVars, generate_clicked, escaped, earlier, helperVars>>

\* the title, the sidebar widgets, messages = [...] and the two joins
BuildMessages ==
    /\ pc = "build"
    /\ messages' = Templates(areas_of_learning, n_results, difficulty, location)
    /\ selected_system_messages' = SelectedSystemMessages(messages')
    /\ selected_user_messages' = SelectedUserDefault(messages')
    /\ rendered' = rendered \o <<Item("title", <<>>)>>
    /\ pc' = "prompt"
    /\ UNCHANGED <<gateVars, widgetVars, generate_clicked, escaped, earlier, helperVars>>

\* what st.text_area(..., value=selected_user_messages["Default"]) returns
UserMessage == IF user_edit.edited THEN user_edit.text ELSE selected_user_messages

\* the prompt selector: Custom rebinds messages, Default shows the prompt
PromptSelect ==
    /\ pc = "prompt"
    /\ IF prompt_selector = "Custom"
       THEN /\ messages' = CustomMessages(selected_system_messages, UserMessage)
            /\ UNCHANGED rendered
       ELSE /\ rendered' = rendered \o <<Item("inspect", selected_system_messages),
                                         Item("inspect", selected_user_messages)>>
            /\ UNCHANGED messages
    /\ pc' = "button"
    /\ UNCHANGED <<gateVars, widgetVars, generate_clicked, selected_system_messages,
                   selected_user_messages, escaped, earlier, helperVars>>

\* if st.button(...): messages.append(...); st.write(messages)
GenerateButton ==
    /\ pc = "button"
    /\ IF generate_clicked
       THEN /\ messages' = Append(messages, RequestMessage(description))
            /\ rendered' = rendered \o <<Item("button", <<>>), Item("messages", messages')>>
            /\ pc' = "call"
       ELSE /\ rendered' = rendered \o <<Item("button", <<>>)>>
            /\ pc' = "idle"
            /\ UNCHANGED messages
    /\ UNCHANGED <<gateVars, widgetVars, generate_clicked, selected_system_messages,
                   selected_user_messages, escaped, earlier, helperVars>>

\* openai.ChatCompletion.create returns; st.write(r["choices"][0]["message"]["content"])
CompletionReturns ==
    /\ pc = "call"
    /\ \E answer \in Answers : rendered' = rendered \o <<Item("answer", answer)>>
    /\ pc' = "idle"
    /\ earlier' = "returned"
    /\ UNCHANGED <<gateVars, widgetVars, generate_clicked, messages,
                   selected_system_messages, selected_user_messages, escaped, helperVars>>

\* openai.ChatCompletion.create raises: nothing catches it
CompletionFails ==
    /\ pc = "call"
    /\ \E e \in OpenAIErrors : escaped' = Raised(e)
    /\ pc' = "idle"
    /\ earlier' = "failed"
    /\ UNCHANGED <<gateVars, widgetVars, generate_clicked, messages,
                   selected_system_messages, selected_user_messages, rendered, helperVars>>

----------------------------------------------------------------------------
(* eli3(), in the steps of one script run. *)

\* TextGenerator(...) returns or raises
ConstructorOutcomes == {"returns", "raises"}

\* how generator.generate(question, prompt=prompt) may fail
GenerateErrors == {"GenerationError"}

\* the title, the model radio and the generator; the except branch reads
\* st.secret, which streamlit does not have
Eli3Construct ==
    /\ pc = "eli3"
    /\ rendered' = rendered \o <<Item("title", <<>>)>>
    /\ \E outcome \in ConstructorOutcomes :
         IF outcome = "returns"
         THEN pc' = "eli3_button" /\ UNCHANGED escaped
         ELSE pc' = "idle" /\ escaped' = Raised("AttributeError")
    /\ UNCHANGED <<gateVars, widgetVars, generate_clicked, messages,
                   selected_system_messages, selected_user_messages,
                   earlier, helperVars>>

\* the prompt radio, the question input and the Generate button
Eli3Button ==
    /\ pc = "eli3_button"
    /\ rendered' = rendered \o <<Item("button", <<>>)>>
    /\ pc' = IF generate_clicked THEN "eli3_generate" ELSE "idle"
    /\ UNCHANGED <<gateVars, widgetVars, generate_clicked, messages,
                   selected_system_messages, selected_user_messages, escaped,
                   earlier, helperVars>>

\* answer = generator.generate(...); st.write(answer)
Eli3GenerateReturns ==
    /\ pc = "eli3_generate"
    /\ \E answer \in Answers : rendered' = rendered \o <<Item("answer", answer)>>
    /\ pc' = "idle"
    /\ earlier' = "returned"
    /\ UNCHANGED <<gateVars, widgetVars, generate_clicked, messages,
                   selected_system_messages, selected_user_messages, escaped, helperVars>>

\* generator.generate(...) raises
Eli3GenerateFails ==
    /\ pc = "eli3_generate"
    /\ \E e \in GenerateErrors : escaped' = Raised(e)
    /\ pc' = "idle"
    /\ earlier' = "failed"
    /\ UNCHANGED <<gateVars, widgetVars, generate_clicked, messages,
                   selected_system_messages, selected_user_messages, rendered, helperVars>>

----------------------------------------------------------------------------
(* User interactions.  Each one changes a widget that the last run drew and *)
(* makes Streamlit run the script again.                                    *)

CanInteract == pc = "idle" /\ gate = "granted"

\* the option menu; widgets that a run does not draw lose their value
SelectPage(p) ==
    /\ CanInteract
    /\ p # selected
    /\ selected' = p
    /\ areas_of_learning' = AolOffered
    /\ difficulty' = "Medium"
    /\ location' = "Indoor or Outdoor"
    /\ n_results' = SliderDefault
    /\ prompt_selector' = "Default"
    /\ user_edit' = NoEdit
    /\ description' = DefaultDescription
    /\ Rerun(FALSE)
    /\ UNCHANGED <<session_state, last_submission, earlier, helperVars>>

\* a sidebar widget of the activity-plan page; the Custom text area's default
\* changes with the placeholders, so what was typed in it is gone
SetPlaceholders(areas, n, d, l) ==
    /\ CanInteract
    /\ selected = EYFS
    /\ LET changed == {k \in 1..4 : CASE k = 1 -> areas # areas_of_learning
                                       [] k = 2 -> n # n_results
                                       [] k = 3 -> d # difficulty
                                       [] k = 4 -> l # location}
       IN  Cardinality(changed) = 1
    /\ areas_of_learning' = areas
    /\ n_results' = n
    /\ difficulty' = d
    /\ location' = l
    /\ user_edit' = NoEdit
    /\ Rerun(FALSE)
    /\ UNCHANGED <<session_state, last_submission, selected, prompt_selector,
                   description, earlier, helperVars>>

\* the prompt selector
SetPromptSelector(m) ==
    /\ CanInteract
    /\ selected = EYFS
    /\ m # prompt_selector
    /\ prompt_selector' = m
    /\ user_edit' = NoEdit
    /\ Rerun(FALSE)
    /\ UNCHANGED <<session_state, last_submission, selected, areas_of_learning,
                   difficulty, location, n_results, description, earlier, helperVars>>

\* typing into the Custom text area
EditUserMessage(t) ==
    /\ CanInteract
    /\ selected = EYFS
    /\ prompt_selector = "Custom"
    /\ Edited(t) # user_edit
    /\ user_edit' = Edited(t)
    /\ Rerun(FALSE)
    /\ UNCHANGED <<session_state, last_submission, selected, areas_of_learning,
                   difficulty, location, n_results, prompt_selector, description,
                   earlier, helperVars>>

\* typing into "How can I help you?"
SetDescription(t) ==
    /\ CanInteract
    /\ selected = EYFS
    /\ t # description
    /\ description' = t
    /\ Rerun(FALSE)
    /\ UNCHANGED <<session_state, last_submission, selected, areas_of_learning,
                   difficulty, location, n_results, prompt_selector, user_edit,
                   earlier, helperVars>>

\* the Generate button of either page
ClickGenerate ==
    /\ CanInteract
    /\ Wrote("button")
    /\ Rerun(TRUE)
    /\ UNCHANGED <<session_state, last_submission, widgetVars, earlier, helperVars>>

----------------------------------------------------------------------------
(* The session. *)

NoReturn == [called |-> FALSE, by_role |-> <<>>, system |-> <<>>, user |-> <<>>]

InitSession ==
    /\ session_state = EmptyState
    /\ last_submission = NoSubmission
    /\ gate = "pending"
    /\ selected = "Home page"
    /\ areas_of_learning = AolOffered
    /\ difficulty = "Medium"
    /\ location = "Indoor or Outdoor"
    /\ n_results = SliderDefault
    /\ prompt_selector = "Default"
    /\ user_edit = NoEdit
    /\ description = DefaultDescription
    /\ generate_clicked = FALSE
    /\ messages = <<>>
    /\ selected_system_messages = <<>>
    /\ selected_user_messages = <<>>
    /\ rendered = <<>>
    /\ escaped = NoError
    /\ earlier = "none"

Init ==
    /\ InitSession
    /\ pc = "start"
    /\ arg_messages = <<>>
    /\ arg_role = "system"
    /\ ret = NoReturn
    /\ after_messages = <<>>

Next ==
    \/ \E p \in Passwords : SubmitPassword(p)
    \/ RunScript
    \/ BuildMessages
    \/ PromptSelect
    \/ GenerateButton
    \/ CompletionReturns
    \/ CompletionFails
    \/ Eli3Construct
    \/ Eli3Button
    \/ Eli3GenerateReturns
    \/ Eli3GenerateFails
    \/ \E p \in Pages : SelectPage(p)
    \/ \E areas \in Selections, n \in NResultsChoices, d \in Difficulties, l \in Locations :
          SetPlaceholders(areas, n, d, l)
    \/ \E m \in PromptModes : SetPromptSelector(m)
    \/ \E t \in CustomTexts : EditUserMessage(t)
    \/ \E t \in Descriptions : SetDescription(t)
    \/ ClickGenerate

Spec == Init /\ [][Next]_vars

----------------------------------------------------------------------------
(* get_messages_by_role on its own, over every short message list. *)

HelperContents == {<<"a">>, <<"b", "c">>}
HelperMessages == {Msg(r, c) : r \in Roles, c \in HelperContents}
MessageLists == UNION {[1..n -> HelperMessages] : n \in 0..MaxMsgs}

InitByRole ==
    /\ InitSession
    /\ pc = "helper"
    /\ arg_messages \in MessageLists
    /\ arg_role \in Roles
    /\ ret = NoReturn
    /\ after_messages = arg_messages

\* the helper and the two joins built on it, applied as lines 129-130 apply them
CallByRole ==
    /\ pc = "helper"
    /\ ~ret.called
    /\ ret' = [called |-> TRUE,
               by_role |-> get_messages_by_role(arg_messages, arg_role),
               system |-> SelectedSystemMessages(arg_messages),
               user |-> SelectedUserDefault(arg_messages)]
    /\ after_messages' = arg_messages
    /\ UNCHANGED <<gateVars, widgetVars, runVars, arg_messages, arg_role>>

NextByRole == CallByRole

SpecByRole == InitByRole /\ [][NextByRole]_vars

----------------------------------------------------------------------------
(* Properties. *)

\* the roles of the three templates of early_year_activity_plan, in order
TemplateRoles == <<"system", "user", "user">>

RolesOf(ms) == [i \in 1..Len(ms) |-> ms[i].role]

\* text `d` occurs in text `t`
Contains(t, d) ==
    \E i \in 1..(Len(t) + 1) :
        /\ i + Len(d) - 1 <= Len(t)
        /\ SubSeq(t, i, i + Len(d) - 1) = d

\* C1 as stated: in both prompt modes the Conversation has one message per
\* template, plus one once the request is appended, and the templates' roles
\* are kept in order.
C1_OneMessagePerTemplate ==
    /\ pc = "button" =>
         /\ Len(messages) = Len(TemplateRoles)
         /\ RolesOf(messages) = TemplateRoles
    /\ pc = "call" =>
         /\ Len(messages) = Len(TemplateRoles) + 1
         /\ SubSeq(RolesOf(messages), 1, Len(TemplateRoles)) = TemplateRoles

\* C1 amended: in Default mode the Conversation has one message per template
\* with the templates' roles in order; in Custom mode it has exactly two, one
\* system and one user; in both modes exactly one more once the request is
\* appended on Generate.
C1_PerModeMessageCount ==
    LET composedRoles == IF prompt_selector = "Default"
                         THEN TemplateRoles
                         ELSE <<"system", "user">>
    IN  /\ pc = "button" =>
             /\ Len(messages) = Len(composedRoles)
             /\ RolesOf(messages) = composedRoles
        /\ pc = "call" =>
             /\ Len(messages) = Len(composedRoles) + 1
             /\ SubSeq(RolesOf(messages), 1, Len(composedRoles)) = composedRoles

\* the request has been appended to a Custom-mode Conversation
C1_Witness ==
    /\ pc = "call"
    /\ prompt_selector = "Custom"
    /\ Len(messages) = 3

\* C2: the step that handles a Generate click leads to the completion call
\* with the composed Conversation plus exactly one trailing message, of role
\* user and containing the description; the earlier messages are untouched.
C2_AppendOnly ==
    [][ (pc = "button" /\ generate_clicked) =>
          /\ pc' = "call"
          /\ Len(messages') = Len(messages) + 1
          /\ SubSeq(messages', 1, Len(messages)) = messages
          /\ messages'[Len(messages')].role = "user"
          /\ Contains(messages'[Len(messages')].content, description) ]_vars

\* a Default-mode Conversation with the default description appended
C2_Witness ==
    /\ pc = "call"
    /\ Len(messages) = 4
    /\ description = DefaultDescription
    /\ Contains(messages[4].content, DefaultDescription)

\* C3 as stated: the selected areas appear in the requirements template as
\* their names joined by commas, in selection order, with nothing else added.
C3_CommaJoined ==
    pc = "prompt" =>
        \E sep \in {<<",">>, <<",", " ">>} :
            messages[3].content =
                RequirementsContent(
                    JoinStr(sep, [i \in 1..Len(areas_of_learning) |-> <<areas_of_learning[i]>>]),
                    IntStr(n_results), <<difficulty>>, <<location>>)

\* C4 as stated: a Generate cycle whose completion call failed has rendered
\* neither the assembled messages nor generated text.
C4_AllOrNothing ==
    (pc = "idle" /\ generate_clicked /\ escaped # NoError) =>
        ~(Wrote("messages") \/ Wrote("answer"))

\* C5 as stated: a failure of a Generate cycle of the activity-plan page
\* reaches the caller as a GenerationError.
C5_SingleErrorType ==
    (generate_clicked /\ selected = EYFS /\ escaped # NoError) =>
        escaped.type = "GenerationError"

\* the Conversation that the current widget values alone determine
C6_FromCurrentInputs ==
    LET requirements ==
            RequirementsContent(ListStr(areas_of_learning), IntStr(n_results),
                                <<difficulty>>, <<location>>)
        userText == IF user_edit.edited THEN user_edit.text
                    ELSE ContextContent \o <<"\n\n">> \o requirements
        request == [role |-> "user",
                    content |-> <<"###Description###\n">> \o description
                                \o <<"\n\n###Activities###\n">>]
    IN  IF prompt_selector = "Default"
        THEN << [role |-> "system", content |-> SystemContent],
                [role |-> "user", content |-> ContextContent],
                [role |-> "user", content |-> requirements],
                request >>
        ELSE << [role |-> "system", content |-> SystemContent],
                [role |-> "user", content |-> userText],
                request >>

\* C6: whatever Generate cycles came before, the Conversation passed to the
\* completion call is the one the current widget values determine, with
\* nothing carried over, and is never longer than the templates plus one.
C6_Independent ==
    pc = "call" =>
        /\ messages = C6_FromCurrentInputs
        /\ Len(messages) <= Len(TemplateRoles) + 1

\* a completion call made after an earlier Generate cycle has failed
C6_Witness ==
    /\ pc = "call"
    /\ earlier = "failed"

\* C7: in the Conversation passed to the completion call every system message
\* comes before every user message, and every role is system, user or
\* assistant.
C7_SystemFirst ==
    pc = "call" =>
        /\ \A i \in 1..Len(messages) : messages[i].role \in Roles
        /\ \A i, j \in 1..Len(messages) :
             (messages[i].role = "system" /\ messages[j].role = "user") => i < j

\* a Custom-mode Conversation at the completion call
C7_Witness ==
    /\ pc = "call"
    /\ prompt_selector = "Custom"
    /\ \E i, j \in 1..Len(messages) :
         messages[i].role = "system" /\ messages[j].role = "user"

\* C8: a run gets past the gate only when check_password returned True, that
\* happens only when the latest submission equalled the secret, and with no
\* submission yet or a wrong one check_password returns False.
C8_PasswordGate ==
    /\ pc \notin {"start", "idle"} => gate = "granted"
    /\ (Wrote("title") \/ Wrote("messages") \/ Wrote("answer")) => gate = "granted"
    /\ gate = "granted" => last_submission = Secret
    /\ (gate # "pending" /\ last_submission # Secret) => gate = "denied"

\* a completion call in flight in a run that got past the gate
C8_Witness ==
    /\ pc = "call"
    /\ gate = "granted"
    /\ last_submission = Secret

Accepted == Has(session_state, "password_correct") /\ session_state["password_correct"]

\* C9: while password_correct is True the key "password" is absent, and from
\* then on password_correct stays True and the key stays absent.
C9_PasswordNotKept ==
    /\ [](Accepted => ~Has(session_state, "password"))
    /\ [][Accepted => (Accepted' /\ ~Has(session_state', "password"))]_vars

\* a later run of a session whose password was accepted
C9_Witness ==
    /\ Accepted
    /\ pc = "call"
    /\ ~Has(session_state, "password")

\* the contents of the messages of `role` among the first n, joined by sep
RECURSIVE C10_Joined(_, _, _, _)
C10_Joined(ms, n, role, sep) ==
    IF n = 0 THEN <<>>
    ELSE IF ms[n].role # role THEN C10_Joined(ms, n - 1, role, sep)
    ELSE IF \E i \in 1..(n - 1) : ms[i].role = role
         THEN C10_Joined(ms, n - 1, role, sep) \o sep \o ms[n].content
         ELSE ms[n].content

====
